---- MODULE Spec2Model ----
(***************************************************************************)
(* VID-Pipe: the tiered cache-aside verification pipelines of the          *)
(* repository, as one state machine.                                       *)
(*                                                                         *)
(* The repository holds four near-duplicate programs.  The variable impl  *)
(* says which one is running; it is chosen at start-up and never changes.  *)
(*   "index"   src/unnamed/part_002  POST /check, LRU cache + store + compute *)
(*   "node"    src/unnamed/part_001  POST /check, LRU cache + compute      *)
(*   "verify"  src/unnamed/part_000  verifyIdentity, store + compute       *)
(*   "persist" src/supabaseClient.js verifyIdentity, expiring store + compute *)
(*                                                                         *)
(* JavaScript runs each handler to its next await without interleaving, so *)
(* one action is one such run.  A request occupies a slot from its arrival *)
(* until its response has been read and its last store call has returned.  *)
(***************************************************************************)
EXTENDS Integers, Sequences, FiniteSets, TLC

(***************************************************************************)
(* Bounds of the model.                                                    *)
(***************************************************************************)
\* requests accepted in one run
MaxRequests == 3
\* last value of the clock
MaxTime == 2
\* entries the volatile cache holds (max: 5000 in the programs)
CacheMax == 2

\* The clock counts in units of the running program's time-to-live: hours
\* for the cache (CACHE_TTL, 1000 * 60 * 60 ms), days for the stored proofs
\* of supabaseClient.js (1000 * 60 * 60 * 24 ms).
CacheTTL == 1
StoreTTL == 1

\* request slots: the requests that can be in flight together
Slots == {1, 2}
\* the values crypto.randomBytes can produce
Proofs == {"pA", "pB"}

(***************************************************************************)
(* JavaScript values.  A string is a sequence of characters.               *)
(***************************************************************************)
Undefined == [t |-> "undefined"]
Null == [t |-> "null"]
Str(s) == [t |-> "string", s |-> s]
Obj(id) == [t |-> "object", id |-> id]
Bool(b) == [t |-> "boolean", b |-> b]

\* !v
Falsy(v) == \/ v.t \in {"undefined", "null"}
            \/ v.t = "string" /\ Len(v.s) = 0
            \/ v.t = "boolean" /\ ~v.b

\* v.id : a property read; a string has no id, undefined has no properties
HasProperties(v) == v.t \notin {"undefined", "null"}
IdOf(v) == IF v.t = "object" THEN v.id ELSE Undefined

LowerChar(c) ==
  CASE c = "J" -> "j"
    [] c = "U" -> "u"
    [] OTHER -> c

ToLowerCase(s) == [n \in 1..Len(s) |-> LowerChar(s[n])]

RECURSIVE TrimStart(_)
TrimStart(s) == IF s # <<>> /\ Head(s) = " " THEN TrimStart(Tail(s)) ELSE s

RECURSIVE TrimEnd(_)
TrimEnd(s) ==
  IF s # <<>> /\ s[Len(s)] = " " THEN TrimEnd(SubSeq(s, 1, Len(s) - 1)) ELSE s

Trim(s) == TrimEnd(TrimStart(s))

StartsWith(s, p) == Len(s) >= Len(p) /\ SubSeq(s, 1, Len(p)) = p

Includes(s, p) ==
  \E n \in 0..(Len(s) - Len(p)) : SubSeq(s, n + 1, n + Len(p)) = p

\* the string literals of the programs
JainUniversity ==
  <<"j","a","i","n"," ","u","n","i","v","e","r","s","i","t","y">>
Student == <<"s","t","u","d","e","n","t">>
DidEthr == <<"d","i","d",":","e","t","h","r">>
Valid == <<"v","a","l","i","d">>

(***************************************************************************)
(* The request bodies / argument pairs the model sends.                    *)
(***************************************************************************)
JainU == <<"J","a","i","n"," ","U","n","i","v","e","r","s","i","t","y">>
StudentId42 == <<"s","t","u","d","e","n","t","-","i","d","-","4","2">>

Inputs == <<
  [issuer |-> Str(JainU), credential |-> Str(StudentId42)],
  [issuer |-> Str(<<" ">> \o JainUniversity \o <<" ">>),
   credential |-> Str(StudentId42)],
  [issuer |-> Str(JainU), credential |-> Str(<<"i","d","-","7">>)],
  [issuer |-> Str(DidEthr \o <<":","1">>),
   credential |-> Obj(Str(Valid \o <<"-","1">>))],
  [issuer |-> Str(<<"d","i","d",":","w","e","b">>),
   credential |-> Obj(Str(Valid \o <<"-","1">>))],
  [issuer |-> Str(<<>>), credential |-> Str(StudentId42)],
  [issuer |-> Undefined, credential |-> Str(StudentId42)],
  [issuer |-> Str(JainU), credential |-> Str(<<>>)],
  [issuer |-> Str(JainU), credential |-> Undefined],
  [issuer |-> Str(<<>>), credential |-> Obj(Str(Valid \o <<"-","1">>))],
  [issuer |-> Undefined, credential |-> Obj(Str(Valid \o <<"-","1">>))]
>>

InputIds == 1..Len(Inputs)

\* the inputs the model sends to each program: for each, inputs of two keys,
\* two inputs of one key where the decision reads the input, a credential
\* of the other type, and an empty and a missing field
Sent(program) ==
  CASE program = "index" -> {1, 3, 4, 6, 9}
    [] program = "node" -> {1, 2, 4, 5, 6, 9}
    [] program = "verify" -> {1, 2, 3, 4, 6, 9}
    [] OTHER -> {4, 9, 10}

(***************************************************************************)
(* Key derivation.                                                         *)
(***************************************************************************)
\* JSON.stringify of an object literal: the fields in the order written, a
\* field whose value is undefined left out
JsonStringify(fields) == SelectSeq(fields, LAMBDA f : f[2].t # "undefined")

\* generateIdentityHash(issuer, credential) calls .trim() on both arguments:
\* a TypeError when one of them is not a string
IdentityHashThrows(in) ==
  in.issuer.t # "string" \/ in.credential.t # "string"

IdentityPayload(in) ==
  JsonStringify(<< <<"issuer", Str(ToLowerCase(Trim(in.issuer.s)))>>,
                   <<"credential", Str(Trim(in.credential.s))>> >>)

\* generateRequestHash: the body's fields as supplied
RequestPayload(in) ==
  JsonStringify(<< <<"issuer", in.issuer>>, <<"credential", in.credential>> >>)

\* generateFingerprint(issuer, credential) reads credential.id
FingerprintThrows(in) == ~HasProperties(in.credential)

FingerprintPayload(in) ==
  JsonStringify(<< <<"issuer", in.issuer>>,
                   <<"credentialId", IdOf(in.credential)>> >>)

\* every string the programs can hash, in a fixed order
Payloads ==
  [n \in 1..(3 * Len(Inputs)) |->
     LET in == Inputs[((n - 1) % Len(Inputs)) + 1]
         d == (n - 1) \div Len(Inputs)
     IN  CASE d = 0 -> IF IdentityHashThrows(in) THEN <<>> ELSE IdentityPayload(in)
           [] d = 1 -> RequestPayload(in)
           [] OTHER -> IF FingerprintThrows(in) THEN <<>> ELSE FingerprintPayload(in)]

\* crypto.createHash("sha256").update(p).digest("hex"): collision-free, so a
\* digest is named by the first place its preimage takes in Payloads
Sha256(p) ==
  CHOOSE n \in DOMAIN Payloads :
    Payloads[n] = p /\ \A m \in 1..(n - 1) : Payloads[m] # p

generateIdentityHash(in) == Sha256(IdentityPayload(in))
generateRequestHash(in) == Sha256(RequestPayload(in))
generateFingerprint(in) == Sha256(FingerprintPayload(in))

KeyTable ==
  [i \in InputIds |->
     [identity |-> IF IdentityHashThrows(Inputs[i]) THEN 0
                   ELSE generateIdentityHash(Inputs[i]),
      request |-> generateRequestHash(Inputs[i]),
      fingerprint |-> IF FingerprintThrows(Inputs[i]) THEN 0
                      ELSE generateFingerprint(Inputs[i])]]

(***************************************************************************)
(* The volatile cache: new LRUCache({max, ttl, allowStale: false}).        *)
(* A cache is the sequence of its entries, least recently used first.      *)
(***************************************************************************)
CacheIndex(c, k) ==
  IF \E n \in 1..Len(c) : c[n].key = k
  THEN CHOOSE n \in 1..Len(c) : c[n].key = k
  ELSE 0

Without(c, n) == SubSeq(c, 1, n - 1) \o SubSeq(c, n + 1, Len(c))

\* a faulty variant: no ttl
IsStaleNever(e, t) == FALSE

\* an entry is stale once more than ttl has passed since it was set
IsStale(e, t) == t - e.start > CacheTTL

\* a faulty variant: the cache is never asked
CacheHasSkipped(c, k, t) == FALSE

\* has(k): present and not stale; recency and age are left alone
CacheHas(c, k, t) ==
  CacheIndex(c, k) # 0 /\ ~IsStale(c[CacheIndex(c, k)], t)

\* a faulty variant: a get that is no use of the entry
CacheGetNoTouch(c, k) ==
  [value |-> c[CacheIndex(c, k)].value, cache |-> c]

\* get(k) on an entry has() has just reported: the entry becomes the most
\* recently used, its age is kept
CacheGet(c, k) ==
  LET n == CacheIndex(c, k)
  IN  [value |-> c[n].value, cache |-> Append(Without(c, n), c[n])]

\* set(k, v): an entry of the key is replaced and its age restarts; a new key
\* in a full cache evicts the least recently used entry
CacheSet(c, k, v, t) ==
  LET n == CacheIndex(c, k)
      e == [key |-> k, value |-> v, start |-> t]
  IN  IF n # 0 THEN Append(Without(c, n), e)
      ELSE IF Len(c) >= CacheMax THEN Append(Tail(c), e)
      ELSE Append(c, e)

(***************************************************************************)
(* The durable store: one Supabase table, the hash column its unique key   *)
(* ("The unique key", part_000 line 84).  The client returns {data, error} *)
(* and does not throw.                                                     *)
(***************************************************************************)
\* a faulty variant: .upsert([row]), which replaces the row of a taken key
StoreUpsert(rows, row, up) ==
  IF up
  THEN [rows |-> {q \in rows : q.key # row.key} \cup {row}, error |-> FALSE]
  ELSE [rows |-> rows, error |-> TRUE]

\* .insert([row]): refused while the store is down or when the key is taken
StoreInsert(rows, row, up) ==
  IF up /\ ~\E q \in rows : q.key = row.key
  THEN [rows |-> rows \cup {row}, error |-> FALSE]
  ELSE [rows |-> rows, error |-> TRUE]

\* .from("verification_proofs").insert([row]): the table keeps one row per
\* content_hash, as "identity_verifications" keeps one per hash
ProofsInsert(rows, row, up) == StoreInsert(rows, row, up)

\* .single(): the one row that matches, else data: null and an error
Single(matching, up) ==
  IF up /\ Cardinality(matching) = 1
  THEN [data |-> CHOOSE q \in matching : TRUE, error |-> FALSE]
  ELSE [data |-> Null, error |-> TRUE]

\* .select("*").eq("hash", k).single()
SelectByHash(rows, k, up) == Single({q \in rows : q.key = k}, up)

\* a faulty variant: the .gt("expires_at", now) filter is left out
SelectExpiredToo(rows, k, t, up) == Single({q \in rows : q.key = k}, up)

\* .select("*").eq("content_hash", k).gt("expires_at", now).single()
SelectUnexpired(rows, k, t, up) ==
  Single({q \in rows : q.key = k /\ q.expires > t}, up)

(***************************************************************************)
(* State.                                                                  *)
(***************************************************************************)
VARIABLES
  impl,     \* the program that runs
  quota,    \* the requests this run accepts
  now,      \* the clock
  alive,    \* the Node process has not died of an uncaught exception
  storeUp,  \* the durable store answers
  cache,    \* proofCache
  store,    \* the rows of the table
  req,      \* per slot: the request in flight in it
  last,     \* the request whose outcome was seen last
  served,   \* requests accepted so far
  first     \* history: per key with a live cache entry, the first result
            \* a compute has answered with while the key has had one

vars == <<impl, quota, now, alive, storeUp, cache, store, req, last, served, first>>

Impls == {"index", "node", "verify", "persist"}

\* { verified, proof } of a result, a row or a cache value
Result(verified, proof) == [verified |-> verified, proof |-> proof]
NoResult == Result(Undefined, Undefined)

\* crypto.randomBytes(n).toString("hex")
ProofValue(p) == [t |-> "string", hex |-> p]

\* status: the HTTP status of POST /check ("200", "400", "500"), or what the
\* envelope verifyIdentity returns says ("success": success true; "invalid":
\* success false with the input error; "failure": success false from the catch)
Response(status, source, res) ==
  [status |-> status, source |-> source,
   verified |-> res.verified, proof |-> res.proof]
NoResponse == Response("none", "", NoResult)

NoRow == [key |-> 0]

\* pc: "idle"; in flight "lookup", "compute", "insert"; and, once the outcome
\* is there, "done" (a response was sent or an envelope returned), "threw"
\* (verifyIdentity's promise rejected), "rejected" (the route handler's
\* promise rejected or its timer callback threw: the handler sent nothing)
Idle ==
  [pc |-> "idle", inp |-> 0, key |-> 0, ev |-> <<>>, resp |-> NoResponse,
   row |-> NoRow, write |-> "none"]

Init ==
  /\ impl \in Impls
  /\ quota = MaxRequests
  /\ now = 0
  /\ alive = TRUE
  /\ storeUp = TRUE
  /\ cache = <<>>
  /\ store = {}
  /\ req = [r \in Slots |-> Idle]
  /\ last = Idle
  /\ served = 0
  /\ first = {}

\* what a route handler whose promise rejects outside its try block leads
\* to, depending on the Express and Node versions installed: no response at
\* all, the death of the process, or the framework's own 500
RejectionOutcomes == {"no response", "process exit", "framework 500"}

\* a request arrives and takes the first free slot
Accept(r, i) ==
  /\ alive
  /\ i \in Sent(impl)
  /\ req[r].pc = "idle"
  /\ \A q \in Slots : q < r => req[q].pc # "idle"
  /\ served < quota
  /\ served' = served + 1

Incoming(i, k, evs) == [Idle EXCEPT !.inp = i, !.key = k, !.ev = evs]

\* the request of slot r one step on
Step(r, pc, evs, resp) ==
  [req[r] EXCEPT !.pc = pc, !.ev = @ \o evs, !.resp = resp]

\* the request of slot r is over with outcome rec
Finish(r, rec) ==
  /\ req' = [req EXCEPT ![r] = Idle]
  /\ last' = rec

Outcome(rec, pc, resp) == [rec EXCEPT !.pc = pc, !.resp = resp]

\* the history first after a step that leaves the cache c at time t and in
\* which a compute has answered with the results in answered
Remember(answered, c, t) ==
  {x \in first \cup {a \in answered : ~\E y \in first : y.key = a.key} :
     \E n \in 1..Len(c) : c[n].key = x.key /\ t - c[n].start <= CacheTTL}

Answer(k, res) == [key |-> k, verified |-> res.verified, proof |-> res.proof]

(***************************************************************************)
(* "index": app.post("/check") of part_002.                                *)
(***************************************************************************)
\* a faulty variant: the hit is labelled as the store's
ServeFromRamMislabelled(cachedResult) ==
  Response("200", "0G_DISK_CACHE", cachedResult)

\* line 81: a cached result is sent as it is
ServeFromRam(cachedResult) == Response("200", "0G_RAM_CACHE", cachedResult)

\* lines 94-99: the result made of a row
FromRow(dbData) == Result(dbData.verified, dbData.proof)

\* a faulty variant: the row is served and not promoted
PromoteSkipped(c, k, result, t) == c

\* line 100: the row's result is put in the cache
Promote(c, k, result, t) == CacheSet(c, k, result, t)

\* a faulty variant: the new result is sent and not cached
SaveToRamSkipped(c, k, newResult, t) == c

\* line 130: the new result is put in the cache
SaveToRam(c, k, newResult, t) == CacheSet(c, k, newResult, t)

\* a faulty variant: the failure is cached
AfterThrowPoisons(c, k, t) ==
  CacheSet(c, k, [verified |-> Undefined, proof |-> Undefined], t)

\* lines 104-111 and 134-137: what a compute that throws leaves in the cache
AfterThrow(c, k, t) == c

\* lines 66-89: validation, key, LAYER 1, and the store lookup sent
IndexCheck(r, i, o) ==
  LET in == Inputs[i]
      k == KeyTable[i].identity
  IN
  /\ impl = "index"
  /\ Accept(r, i)
  /\ IF Falsy(in.issuer) \/ Falsy(in.credential)
     THEN /\ o = "no response"
          /\ Finish(r, Outcome(Incoming(i, 0, <<>>), "done",
                               Response("400", "", NoResult)))
          /\ UNCHANGED <<cache, alive>>
     ELSE IF IdentityHashThrows(in)
     THEN /\ IF o = "framework 500"
             THEN Finish(r, Outcome(Incoming(i, 0, <<"hash">>), "done",
                                    Response("500", "", NoResult)))
             ELSE Finish(r, Outcome(Incoming(i, 0, <<"hash">>), "rejected",
                                    NoResponse))
          /\ alive' = (o # "process exit")
          /\ UNCHANGED cache
     ELSE IF CacheHas(cache, k, now)
     THEN /\ o = "no response"
          /\ cache' = CacheGet(cache, k).cache
          /\ Finish(r, Outcome(Incoming(i, k, <<"hash", "cache.has", "cache.get">>),
                               "done",
                               ServeFromRam(CacheGet(cache, k).value)))
          /\ UNCHANGED alive
     ELSE /\ o = "no response"
          /\ req' = [req EXCEPT ![r] =
               [Incoming(i, k, <<"hash", "cache.has", "store.select">>)
                EXCEPT !.pc = "lookup"]]
          /\ UNCHANGED <<cache, alive, last>>
  /\ UNCHANGED <<impl, quota, now, storeUp, store, first>>

\* a faulty variant: a request waits while another computes its key
OnMissSingleFlight(r) ==
  IF \E q \in Slots \ {r} : req[q].key = req[r].key /\ req[q].pc = "compute"
  THEN "waiting"
  ELSE "compute"

\* lines 102-108: where a request that found no row goes; nothing is asked
\* about other requests of its key
OnMiss(r) == "compute"

\* lines 85-108: the lookup returns; a row is promoted and served, no row
\* starts the 1500 ms of compute
IndexLookupReturns(r) ==
  LET k == req[r].key
      dbData == SelectByHash(store, k, storeUp).data
      result == FromRow(dbData)
  IN
  /\ impl = "index" /\ alive
  /\ req[r].pc = "lookup"
  /\ IF dbData # Null
     THEN /\ cache' = Promote(cache, k, result, now)
          /\ Finish(r, Step(r, "done", <<"cache.set">>,
                            Response("200", "0G_DISK_CACHE", result)))
     ELSE /\ req' = [req EXCEPT ![r] = Step(r, OnMiss(r), <<>>, NoResponse)]
          /\ UNCHANGED <<cache, last>>
  /\ first' = Remember({}, cache', now)
  /\ UNCHANGED <<impl, quota, now, alive, storeUp, store, served>>

\* lines 110-132 after the timer: the proof, the insert sent and not awaited,
\* the cache set, the response
IndexComputes(r, p) ==
  LET k == req[r].key
      newResult == Result(Bool(TRUE), ProofValue(p))
      rec == [Step(r, "done", <<"compute", "store.insert", "cache.set">>,
                   Response("200", "NEW_COMPUTE", newResult))
              EXCEPT !.row = [key |-> k, verified |-> newResult.verified,
                              proof |-> newResult.proof],
                     !.write = "pending"]
  IN
  /\ impl = "index" /\ alive
  /\ req[r].pc = "compute"
  /\ cache' = SaveToRam(cache, k, newResult, now)
  /\ req' = [req EXCEPT ![r] = rec]
  /\ last' = rec
  /\ first' = Remember({Answer(k, newResult)}, cache', now)
  /\ UNCHANGED <<impl, quota, now, alive, storeUp, store, served>>

\* lines 111 and 134-137: crypto.randomBytes throws inside the try block
IndexComputeThrows(r) ==
  /\ impl = "index" /\ alive
  /\ req[r].pc = "compute"
  /\ cache' = AfterThrow(cache, req[r].key, now)
  /\ Finish(r, Step(r, "done", <<"compute">>, Response("500", "", NoResult)))
  /\ first' = Remember({}, cache', now)
  /\ UNCHANGED <<impl, quota, now, alive, storeUp, store, served>>

\* lines 121-127: the store executes the insert, whose outcome nothing reads
IndexInsertSettles(r) ==
  LET ins == StoreInsert(store, req[r].row, storeUp)
  IN
  /\ impl = "index" /\ alive
  /\ req[r].pc = "done" /\ req[r].write = "pending"
  /\ store' = ins.rows
  /\ Finish(r, [req[r] EXCEPT !.write = IF ins.error THEN "error" ELSE "ok"])
  /\ UNCHANGED <<impl, quota, now, alive, storeUp, cache, served, first>>

(***************************************************************************)
(* "node": generateRequestHash and app.post("/check") of part_001.         *)
(***************************************************************************)
\* credential.id && credential.id.startsWith("valid")
IsValidCredential(credential) ==
  LET id == IdOf(credential)
  IN  IF Falsy(id) THEN id ELSE Bool(StartsWith(id.s, Valid))

\* lines 66-100: the middleware, the cache lookup, and compute started
NodeCheck(r, i) ==
  LET in == Inputs[i]
      k == KeyTable[i].request
  IN
  /\ impl = "node"
  /\ Accept(r, i)
  /\ IF Falsy(in.issuer) \/ Falsy(in.credential)
     THEN /\ Finish(r, Outcome(Incoming(i, 0, <<>>), "done",
                               Response("400", "", NoResult)))
          /\ UNCHANGED cache
     ELSE IF CacheHas(cache, k, now)
     THEN /\ cache' = CacheGet(cache, k).cache
          /\ Finish(r, Outcome(Incoming(i, k, <<"hash", "cache.has", "cache.get">>),
                               "done",
                               Response("200", "0G_CACHE_LAYER",
                                        CacheGet(cache, k).value)))
     ELSE /\ req' = [req EXCEPT ![r] =
               [Incoming(i, k, <<"hash", "cache.has">>) EXCEPT !.pc = "compute"]]
          /\ UNCHANGED <<cache, last>>
  /\ UNCHANGED <<impl, quota, now, alive, storeUp, store, first>>

\* lines 23-36 and 100-109: the timer fires, the result is cached and sent
NodeComputes(r, p) ==
  LET result == Result(IsValidCredential(Inputs[req[r].inp].credential),
                       ProofValue(p))
  IN
  /\ impl = "node" /\ alive
  /\ req[r].pc = "compute"
  /\ cache' = CacheSet(cache, req[r].key, result, now)
  /\ Finish(r, Step(r, "done", <<"compute", "cache.set">>,
                    Response("200", "NEW_COMPUTE", result)))
  /\ first' = Remember({Answer(req[r].key, result)}, cache', now)
  /\ UNCHANGED <<impl, quota, now, alive, storeUp, store, served>>

\* line 32: crypto.randomBytes throws inside the timer callback, where no
\* try block and no promise catches it
NodeComputeThrows(r) ==
  /\ impl = "node" /\ alive
  /\ req[r].pc = "compute"
  /\ alive' = FALSE
  /\ Finish(r, Step(r, "rejected", <<"compute">>, NoResponse))
  /\ UNCHANGED <<impl, quota, now, storeUp, cache, store, served, first>>

(***************************************************************************)
(* "verify": verifyIdentity of part_000.  The module it requires as        *)
(* ./supabaseClient is taken to export a Supabase client.                  *)
(***************************************************************************)
\* lines 71-73
IsVerified(in) ==
  /\ ToLowerCase(in.issuer.s) = JainUniversity
  /\ Includes(ToLowerCase(in.credential.s), Student)

\* lines 32-51: validation, key, and the store lookup sent
VerifyCall(r, i) ==
  LET in == Inputs[i]
      k == KeyTable[i].identity
  IN
  /\ impl = "verify"
  /\ Accept(r, i)
  /\ IF Falsy(in.issuer) \/ Falsy(in.credential)
     THEN Finish(r, Outcome(Incoming(i, 0, <<>>), "done",
                            Response("invalid", "", NoResult)))
     ELSE IF IdentityHashThrows(in)
     THEN Finish(r, Outcome(Incoming(i, 0, <<"hash">>), "threw", NoResponse))
     ELSE /\ req' = [req EXCEPT ![r] =
               [Incoming(i, k, <<"hash", "store.select">>) EXCEPT !.pc = "lookup"]]
          /\ UNCHANGED last
  /\ UNCHANGED <<impl, quota, now, alive, storeUp, cache, store, first>>

\* lines 47-91: the lookup returns; a row is served, no row is computed and
\* the insert sent
VerifyLookupReturns(r, p) ==
  LET k == req[r].key
      in == Inputs[req[r].inp]
      sel == SelectByHash(store, k, storeUp)
      cachedData == sel.data
      proofSignature == IF IsVerified(in) THEN ProofValue(p) ELSE Null
  IN
  /\ impl = "verify" /\ alive
  /\ req[r].pc = "lookup"
  /\ IF cachedData # Null /\ ~sel.error
     THEN Finish(r, Step(r, "done", <<>>,
                         Response("success", "CACHE (0G_LAYER)",
                                  Result(cachedData.verified, cachedData.proof))))
     ELSE /\ req' = [req EXCEPT ![r] =
               [Step(r, "insert", <<"compute", "store.insert">>, NoResponse)
                EXCEPT !.row = [key |-> k, verified |-> Bool(IsVerified(in)),
                                proof |-> proofSignature],
                       !.write = "pending"]]
          /\ UNCHANGED last
  /\ UNCHANGED <<impl, quota, now, alive, storeUp, cache, store, served, first>>

\* lines 76 and 110-116: crypto.randomBytes throws inside the try block
VerifyComputeThrows(r) ==
  LET sel == SelectByHash(store, req[r].key, storeUp)
  IN
  /\ impl = "verify" /\ alive
  /\ req[r].pc = "lookup"
  /\ ~(sel.data # Null /\ ~sel.error)
  /\ IsVerified(Inputs[req[r].inp])
  /\ Finish(r, Step(r, "done", <<"compute">>, Response("failure", "", NoResult)))
  /\ UNCHANGED <<impl, quota, now, alive, storeUp, cache, store, served, first>>

\* a faulty variant: the insert's error fails the call
VerifyWrittenStrict(row, writeError) ==
  IF writeError
  THEN Response("failure", "", [verified |-> Undefined, proof |-> Undefined])
  ELSE Response("success", "COMPUTE (NEW_EXECUTION)",
                [verified |-> row.verified, proof |-> row.proof])

\* lines 93-108: the envelope returned after the insert, whose error is
\* logged and not returned
VerifyWritten(row, writeError) ==
  Response("success", "COMPUTE (NEW_EXECUTION)", Result(row.verified, row.proof))

\* lines 80-108: the insert returns, with an error or without
VerifyInsertReturns(r) ==
  LET ins == StoreInsert(store, req[r].row, storeUp)
  IN
  /\ impl = "verify" /\ alive
  /\ req[r].pc = "insert"
  /\ store' = ins.rows
  /\ Finish(r, [Step(r, "done", <<>>, VerifyWritten(req[r].row, ins.error))
                EXCEPT !.write = IF ins.error THEN "error" ELSE "ok"])
  /\ UNCHANGED <<impl, quota, now, alive, storeUp, cache, served, first>>

(***************************************************************************)
(* "persist": verifyIdentity of supabaseClient.js.                         *)
(***************************************************************************)
\* lines 47-59: the fingerprint and the store lookup sent
PersistCall(r, i) ==
  LET in == Inputs[i]
      k == KeyTable[i].fingerprint
  IN
  /\ impl = "persist"
  /\ Accept(r, i)
  /\ IF FingerprintThrows(in)
     THEN Finish(r, Outcome(Incoming(i, 0, <<"hash">>), "threw", NoResponse))
     ELSE /\ req' = [req EXCEPT ![r] =
               [Incoming(i, k, <<"hash", "store.select">>) EXCEPT !.pc = "lookup"]]
          /\ UNCHANGED last
  /\ UNCHANGED <<impl, quota, now, alive, storeUp, cache, store, first>>

\* lines 54-79: the lookup returns; an unexpired row is served, else the
\* 1500 ms of performHeavyVerification start
PersistLookupReturns(r) ==
  LET cachedProof == SelectUnexpired(store, req[r].key, now, storeUp).data
  IN
  /\ impl = "persist" /\ alive
  /\ req[r].pc = "lookup"
  /\ IF cachedProof # Null
     THEN Finish(r, Step(r, "done", <<>>,
                         Response("success", "PERSISTENT_CACHE",
                                  Result(cachedProof.verified, cachedProof.proof))))
     ELSE /\ req' = [req EXCEPT ![r] = Step(r, "compute", <<>>, NoResponse)]
          /\ UNCHANGED last
  /\ UNCHANGED <<impl, quota, now, alive, storeUp, cache, store, served, first>>

\* lines 118-134 and 79-93: the timer fires, the result is there and the
\* insert is sent, the row to expire one StoreTTL from now
PersistComputes(r, p) ==
  LET in == Inputs[req[r].inp]
      isValid == StartsWith(in.issuer.s, DidEthr)
  IN
  /\ impl = "persist" /\ alive
  /\ req[r].pc = "compute"
  /\ in.issuer.t = "string"
  /\ req' = [req EXCEPT ![r] =
       [Step(r, "insert", <<"compute", "store.insert">>, NoResponse)
        EXCEPT !.row = [key |-> req[r].key, verified |-> Bool(isValid),
                        proof |-> ProofValue(p), expires |-> now + StoreTTL],
               !.write = "pending"]]
  /\ UNCHANGED <<impl, quota, now, alive, storeUp, cache, store, last, served, first>>

\* lines 122 and 129: issuer.startsWith on an issuer that is no string, or
\* crypto.randomBytes, throws inside the timer callback, where no try block
\* and no promise catches it
PersistComputeThrows(r) ==
  /\ impl = "persist" /\ alive
  /\ req[r].pc = "compute"
  /\ alive' = FALSE
  /\ Finish(r, Step(r, "rejected", <<"compute">>, NoResponse))
  /\ UNCHANGED <<impl, quota, now, storeUp, cache, store, served, first>>

\* lines 95-109: the envelope returned after the insert, whose error is
\* logged and not returned
PersistWritten(row, insertError) ==
  Response("success", "NEW_COMPUTE", Result(row.verified, row.proof))

\* lines 83-109: the insert returns, with an error or without
PersistInsertReturns(r) ==
  LET ins == ProofsInsert(store, req[r].row, storeUp)
  IN
  /\ impl = "persist" /\ alive
  /\ req[r].pc = "insert"
  /\ store' = ins.rows
  /\ Finish(r, [Step(r, "done", <<>>, PersistWritten(req[r].row, ins.error))
                EXCEPT !.write = IF ins.error THEN "error" ELSE "ok"])
  /\ UNCHANGED <<impl, quota, now, alive, storeUp, cache, served, first>>

(***************************************************************************)
(* The environment.  Nothing is observed of a process that has died.       *)
(***************************************************************************)
\* the clock is read only against what has been written, so that it starts
\* with the first entry, row or insert; part_000 reads no clock
Tick ==
  /\ alive
  /\ impl # "verify"
  /\ cache # <<>> \/ store # {} \/ \E r \in Slots : req[r].row # NoRow
  /\ now < MaxTime
  /\ now' = now + 1
  /\ first' = Remember({}, cache, now')
  /\ UNCHANGED <<impl, quota, alive, storeUp, cache, store, req, last, served>>

StoreOutage ==
  /\ alive
  /\ impl # "node"
  /\ storeUp' = ~storeUp
  /\ UNCHANGED <<impl, quota, now, alive, cache, store, req, last, served, first>>

NextIndex ==
  \/ \E r \in Slots, i \in InputIds, o \in RejectionOutcomes : IndexCheck(r, i, o)
  \/ \E r \in Slots : IndexLookupReturns(r)
  \/ \E r \in Slots, p \in Proofs : IndexComputes(r, p)
  \/ \E r \in Slots : IndexComputeThrows(r)
  \/ \E r \in Slots : IndexInsertSettles(r)
  \/ Tick
  \/ StoreOutage

NextNode ==
  \/ \E r \in Slots, i \in InputIds : NodeCheck(r, i)
  \/ \E r \in Slots, p \in Proofs : NodeComputes(r, p)
  \/ \E r \in Slots : NodeComputeThrows(r)
  \/ Tick

NextVerify ==
  \/ \E r \in Slots, i \in InputIds : VerifyCall(r, i)
  \/ \E r \in Slots, p \in Proofs : VerifyLookupReturns(r, p)
  \/ \E r \in Slots : VerifyComputeThrows(r)
  \/ \E r \in Slots : VerifyInsertReturns(r)
  \/ StoreOutage

NextPersist ==
  \/ \E r \in Slots, i \in InputIds : PersistCall(r, i)
  \/ \E r \in Slots : PersistLookupReturns(r)
  \/ \E r \in Slots, p \in Proofs : PersistComputes(r, p)
  \/ \E r \in Slots : PersistComputeThrows(r)
  \/ \E r \in Slots : PersistInsertReturns(r)
  \/ Tick
  \/ StoreOutage

Next == NextIndex \/ NextNode \/ NextVerify \/ NextPersist

\* any of the four programs
Spec == Init /\ [][Next]_vars

\* part_002 alone
InitIndex == Init /\ impl = "index"
SpecIndex == InitIndex /\ [][NextIndex]_vars

\* part_001 alone, in a run one request longer
InitNode ==
  /\ impl = "node"
  /\ quota = MaxRequests + 1
  /\ now = 0
  /\ alive = TRUE
  /\ storeUp = TRUE
  /\ cache = <<>>
  /\ store = {}
  /\ req = [r \in Slots |-> Idle]
  /\ last = Idle
  /\ served = 0
  /\ first = {}
SpecNode == InitNode /\ [][NextNode]_vars

\* supabaseClient.js alone
InitPersist == Init /\ impl = "persist"
SpecPersist == InitPersist /\ [][NextPersist]_vars

(***************************************************************************)
(* What the claims speak of.                                               *)
(***************************************************************************)
\* the requests in flight and the one seen last
Records == {req[r] : r \in Slots} \cup {last}

HasEvent(rec, e) == \E n \in 1..Len(rec.ev) : rec.ev[n] = e

\* the cache c holds at time t an entry of key k that has not expired
LiveIn(c, t, k) ==
  \E n \in 1..Len(c) : c[n].key = k /\ t - c[n].start <= CacheTTL
ValueIn(c, k) == (CHOOSE e \in {c[n] : n \in 1..Len(c)} : e.key = k).value
LiveEntry(k) == LiveIn(cache, now, k)

RowsOf(k) == {q \in store : q.key = k}
RowResult(q) == Result(q.verified, q.proof)

\* this step a request arrives; Arrived is what has become of it at the
\* step's end
Arrival == served' = served + 1
Arrived ==
  IF req' = req THEN last' ELSE req'[CHOOSE r \in Slots : req'[r] # req[r]]

\* the handler of slot r runs this step
Moves(r) == req'[r] # req[r]

TouchesStore(rec) ==
  HasEvent(rec, "store.select") \/ HasEvent(rec, "store.insert")

(***************************************************************************)
(* C1.  In POST /check of part_002 a store lookup is sent only by a        *)
(* request that has just found no live entry of its key in the cache, and  *)
(* compute starts (and the insert is sent) only for a request whose lookup *)
(* has just returned no row: no request reaches the store or compute       *)
(* without the cheaper probes.                                             *)
(***************************************************************************)
C1_TierOrderStep ==
  \A r \in Slots :
    /\ (req'[r].pc = "lookup" /\ req[r].pc # "lookup")
         => /\ req[r].pc = "idle"
            /\ ~LiveEntry(req'[r].key)
            /\ req'[r].ev = <<"hash", "cache.has", "store.select">>
    /\ (req'[r].pc = "compute" /\ req[r].pc # "compute")
         => /\ req[r].pc = "lookup"
            /\ ~storeUp \/ RowsOf(req[r].key) = {}
    /\ (req'[r].write = "pending" /\ req[r].write # "pending")
         => req[r].pc = "compute"
    /\ (Moves(r) /\ req[r].pc = "idle") => req'[r].pc = "lookup"

C1_TierOrder == [][impl = "index" => C1_TierOrderStep]_vars

C1_Witness ==
  /\ impl = "index"
  /\ last.resp.source = "NEW_COMPUTE"
  /\ last.ev = <<"hash", "cache.has", "store.select", "compute",
                 "store.insert", "cache.set">>

(***************************************************************************)
(* C2.  Tier precedence in part_002: a request that arrives for a key      *)
(* with a live cache entry and a row of another verified or proof is       *)
(* answered at once with the entry's value and source "0G_RAM_CACHE",      *)
(* without a store lookup, an insert or a compute.                         *)
(***************************************************************************)
Mismatch(k) ==
  /\ LiveEntry(k)
  /\ \E q \in RowsOf(k) : RowResult(q) # ValueIn(cache, k)

C2_TierPrecedence ==
  [][(impl = "index" /\ Arrival /\ Mismatch(Arrived.key))
       => /\ req' = req
          /\ last'.pc = "done"
          /\ last'.resp = Response("200", "0G_RAM_CACHE",
                                   ValueIn(cache, last'.key))
          /\ ~TouchesStore(last') /\ ~HasEvent(last', "compute")
          /\ last'.write = "none"
          /\ store' = store]_vars

C2_Witness ==
  /\ impl = "index"
  /\ last.resp.source = "0G_RAM_CACHE"
  /\ \E q \in RowsOf(last.key) :
       RowResult(q) # Result(last.resp.verified, last.resp.proof)

(***************************************************************************)
(* C3.  Promotion in part_002: when the lookup of a request returns a row, *)
(* the row's verified and proof are in the cache, live, when the response  *)
(* with source "0G_DISK_CACHE" is sent; and a request that arrives while   *)
(* the key's entry is live (not evicted, not expired) is served with       *)
(* source "0G_RAM_CACHE".                                                  *)
(***************************************************************************)
C3_PromotionStep ==
  /\ \A r \in Slots :
       (req[r].pc = "lookup" /\ Moves(r) /\ storeUp /\ RowsOf(req[r].key) # {})
         => LET q == CHOOSE q \in RowsOf(req[r].key) : TRUE
            IN  /\ last'.pc = "done" /\ last'.key = q.key
                /\ last'.resp = Response("200", "0G_DISK_CACHE", RowResult(q))
                /\ LiveIn(cache', now', q.key)
                /\ ValueIn(cache', q.key) = RowResult(q)
  /\ (Arrival /\ LiveEntry(Arrived.key))
       => /\ req' = req
          /\ last'.resp.status = "200"
          /\ last'.resp.source = "0G_RAM_CACHE"

C3_Promotion == [][impl = "index" => C3_PromotionStep]_vars

\* a hit on an entry that no compute has written: a promoted row
C3_Witness ==
  /\ impl = "index"
  /\ last.resp.source = "0G_RAM_CACHE"
  /\ LiveEntry(last.key)
  /\ ~\E x \in first : x.key = last.key

(***************************************************************************)
(* More of what the claims speak of.                                       *)
(***************************************************************************)
RecordsNext == {req'[r] : r \in Slots} \cup {last'}

\* the request of slot r after the step in which its handler ran
After(r) == IF req'[r].pc = "idle" THEN last' ELSE req'[r]

\* this step a request gets its outcome
Finishing ==
  \/ Arrival /\ req' = req
  \/ \E r \in Slots : Moves(r) /\ req'[r].pc \in {"idle", "done"}

OkStatus == IF impl \in {"index", "node"} THEN "200" ELSE "success"
ComputedSource ==
  IF impl = "verify" THEN "COMPUTE (NEW_EXECUTION)" ELSE "NEW_COMPUTE"
Failed(rec) == rec.resp.status \in {"500", "failure"}

HasExpiry(q) == "expires" \in DOMAIN q

\* the rows of key k a lookup may return now
Visible(k) ==
  IF storeUp THEN {q \in RowsOf(k) : HasExpiry(q) => q.expires > now} ELSE {}

(***************************************************************************)
(* C4.  Store-write-failure tolerance: a request whose insert has failed   *)
(* has, in every program with a store, the successful response with the    *)
(* computed verified, proof and source; and in part_002 the step that      *)
(* sends the insert leaves the computed result live in the cache.          *)
(***************************************************************************)
C4_WriteFailureStep ==
  /\ \A rec \in RecordsNext :
       rec.write = "error"
         => /\ rec.pc = "done"
            /\ rec.resp = Response(OkStatus, ComputedSource, RowResult(rec.row))
  /\ impl = "index"
       => \A r \in Slots :
            (req'[r].write = "pending" /\ req[r].write # "pending")
              => /\ req'[r].resp = Response("200", "NEW_COMPUTE",
                                            RowResult(req'[r].row))
                 /\ LiveIn(cache', now', req'[r].key)
                 /\ ValueIn(cache', req'[r].key) = RowResult(req'[r].row)

C4_WriteFailureTolerated == [][C4_WriteFailureStep]_vars

C4_Witness ==
  /\ impl = "verify"
  /\ last.write = "error"
  /\ last.resp.status = "success"
  /\ last.resp.source = "COMPUTE (NEW_EXECUTION)"

(***************************************************************************)
(* C5.  Store outage in part_002: while the store is down a lookup that    *)
(* returns sends its request on to compute; a compute that ends either     *)
(* answers 200 "NEW_COMPUTE" with the result live in the cache or is the   *)
(* throw of the proof generator; the insert fails unseen; and a request    *)
(* that arrives while the key's entry is live is answered                  *)
(* "0G_RAM_CACHE" with no store call.                                      *)
(***************************************************************************)
C5_OutageStep ==
  /\ \A r \in Slots :
       (req[r].pc = "lookup" /\ Moves(r))
         => req'[r].pc = "compute" /\ last' = last
  /\ \A r \in Slots :
       (req[r].pc = "compute" /\ Moves(r))
         => \/ /\ req'[r].resp.status = "200"
               /\ req'[r].resp.source = "NEW_COMPUTE"
               /\ last' = req'[r]
               /\ LiveIn(cache', now', req[r].key)
               /\ ValueIn(cache', req[r].key) =
                    Result(req'[r].resp.verified, req'[r].resp.proof)
            \/ /\ last'.resp.status = "500"
               /\ last'.ev = req[r].ev \o <<"compute">>
  /\ \A r \in Slots :
       (req[r].write = "pending" /\ Moves(r))
         => /\ last' = [req[r] EXCEPT !.write = "error"]
            /\ store' = store
  /\ (Arrival /\ LiveEntry(Arrived.key))
       => /\ req' = req
          /\ last'.resp = Response("200", "0G_RAM_CACHE", ValueIn(cache, last'.key))
          /\ ~TouchesStore(last')
          /\ store' = store

C5_Outage == [][(impl = "index" /\ ~storeUp) => C5_OutageStep]_vars

\* a hit during the outage on a result computed during it: no row was kept
C5_Witness ==
  /\ impl = "index"
  /\ ~storeUp
  /\ store = {}
  /\ \A r \in Slots : req[r].pc = "idle"
  /\ last.resp.source = "0G_RAM_CACHE"
  /\ \E x \in first : x.key = last.key /\ x.proof = last.resp.proof

(***************************************************************************)
(* C6.  Fail-fast validation: in every program a request whose issuer or   *)
(* credential is missing or empty ends with the invalid-input outcome      *)
(* before any hashing, cache access, store call or compute.                *)
(***************************************************************************)
InvalidInput(in) == Falsy(in.issuer) \/ Falsy(in.credential)

C6_FailFastValidation ==
  \A rec \in Records :
    (rec.inp # 0 /\ InvalidInput(Inputs[rec.inp]))
      => /\ rec.pc = "done"
         /\ rec.resp.status \in {"400", "invalid"}
         /\ rec.ev = <<>>
         /\ rec.write = "none"

(***************************************************************************)
(* C7.  Non-poisoning: the step in which a request ends in HTTP 500 or     *)
(* success false after a throw leaves the cache and the store as they      *)
(* were, and the request has set no entry and sent no insert; so that a    *)
(* request for a key with no live entry is sent on, and one whose lookup   *)
(* returns no row computes again.                                          *)
(***************************************************************************)
C7_NonPoisoningStep ==
  /\ (Finishing /\ Failed(last'))
       => /\ cache' = cache
          /\ store' = store
          /\ ~HasEvent(last', "cache.set")
          /\ ~HasEvent(last', "store.insert")
          /\ last'.write = "none"
          /\ \A r \in Slots : req'[r].write = "pending" => req[r].write = "pending"
  /\ (Arrival /\ impl \in {"index", "node"} /\ Arrived.key # 0
        /\ ~LiveEntry(Arrived.key))
       => Arrived.pc = (IF impl = "index" THEN "lookup" ELSE "compute")
  /\ \A r \in Slots :
       (req[r].pc = "lookup" /\ Moves(r) /\ Visible(req[r].key) = {})
         => After(r).pc = "compute" \/ HasEvent(After(r), "compute")

C7_NonPoisoning == [][C7_NonPoisoningStep]_vars

\* after a failed compute of a key nothing holds the key and a request for
\* it computes
C7_Witness ==
  /\ impl = "index"
  /\ Failed(last) /\ HasEvent(last, "compute")
  /\ cache = <<>> /\ store = {}
  /\ \E r \in Slots : req[r].key = last.key /\ req[r].pc = "compute"

(***************************************************************************)
(* C8.  Response stability: once a compute has answered for a key, every   *)
(* request for the key that arrives afterwards and is served from the      *)
(* cache, the key's entry not evicted or expired in between, gets the      *)
(* verified and proof of that first answer.                                *)
(***************************************************************************)
C8_ResponseStability ==
  [][(Arrival /\ req' = req
        /\ last'.resp.source \in {"0G_RAM_CACHE", "0G_CACHE_LAYER"})
       => \A x \in first :
            x.key = last'.key
              => Result(last'.resp.verified, last'.resp.proof)
                   = Result(x.verified, x.proof)]_vars

(***************************************************************************)
(* C9.  Store expiry: a lookup never returns a row whose expiry is in the  *)
(* past, and a request whose key has only such rows goes on to compute as  *)
(* one whose key has none.                                                 *)
(***************************************************************************)
Past(k) == {q \in RowsOf(k) : HasExpiry(q) /\ q.expires < now}

C9_ExpiryStep ==
  \A r \in Slots :
    (req[r].pc = "lookup" /\ Moves(r))
      => /\ (After(r).pc = "done" /\ After(r).resp.status = OkStatus
               /\ ~HasEvent(After(r), "compute"))
              => \E q \in RowsOf(req[r].key) \ Past(req[r].key) :
                   RowResult(q) = Result(After(r).resp.verified,
                                         After(r).resp.proof)
         /\ (Past(req[r].key) # {} /\ RowsOf(req[r].key) \subseteq Past(req[r].key))
              => /\ req'[r] = [req[r] EXCEPT !.pc = "compute"]
                 /\ last' = last /\ store' = store

C9_ExpiredNeverReturned == [][C9_ExpiryStep]_vars

C9_Witness ==
  /\ impl = "persist"
  /\ storeUp
  /\ \E r \in Slots :
       /\ req[r].pc = "compute"
       /\ Past(req[r].key) # {}

(***************************************************************************)
(* C10.  Write-once per key: a row of the store never changes or goes, and *)
(* the store never holds two rows of one key.                              *)
(***************************************************************************)
C10_WriteOnce ==
  [][/\ \A q \in store : q \in store'
     /\ \A q1, q2 \in store' : q1.key = q2.key => q1 = q2]_vars

\* the insert of a request that computed after the key's row had expired
\* was refused, and the row is as it was
C10_Witness ==
  /\ impl = "persist"
  /\ last.write = "error"
  /\ \E q \in RowsOf(last.key) :
       q.expires < last.row.expires /\ q.proof # last.row.proof

(***************************************************************************)
(* C11.  Cache TTL, in the two programs with a cache: a request is served  *)
(* from the cache only by an entry set at most CacheTTL ago; a hit leaves  *)
(* the entry's age and value as they were; and a request that arrives when *)
(* its key's entry is older goes on to the next tier, the entry still in   *)
(* the cache.                                                              *)
(***************************************************************************)
Entries(c) == {c[n] : n \in 1..Len(c)}
EntryOf(c, k) == CHOOSE e \in Entries(c) : e.key = k
Holds(c, k) == \E e \in Entries(c) : e.key = k
NextTier == IF impl = "index" THEN "lookup" ELSE "compute"

C11_TtlStep ==
  (Arrival /\ Arrived.key # 0)
    => LET k == Arrived.key
       IN  /\ HasEvent(Arrived, "cache.get")
             => /\ Holds(cache, k)
                /\ now - EntryOf(cache, k).start <= CacheTTL
                /\ Holds(cache', k)
                /\ EntryOf(cache', k) = EntryOf(cache, k)
           /\ (Holds(cache, k) /\ now - EntryOf(cache, k).start > CacheTTL)
             => /\ Arrived.pc = NextTier
                /\ ~HasEvent(Arrived, "cache.get")
                /\ cache' = cache

C11_CacheTtl == [][(impl \in {"index", "node"}) => C11_TtlStep]_vars

\* an entry was hit while live, and a request that came after its ttl is
\* computing, the entry still there
C11_Witness ==
  /\ impl = "node"
  /\ HasEvent(last, "cache.get")
  /\ Holds(cache, last.key)
  /\ now - EntryOf(cache, last.key).start > CacheTTL
  /\ \E r \in Slots : req[r].key = last.key /\ req[r].pc = "compute"

(***************************************************************************)
(* C12.  Capacity eviction.  The cache never holds more than CacheMax      *)
(* entries, nor two of one key.  Reading it as the sequence of its keys,   *)
(* least recently used first: a hit and a set of a key it holds move the   *)
(* key to the end; a set of a new key appends it, and in a full cache      *)
(* drops the first key and nothing else; no other step changes the cache.  *)
(* A request that arrives for a key the cache does not hold misses.        *)
(***************************************************************************)
KeysOf(c) == [n \in 1..Len(c) |-> c[n].key]
Used(ks, k) == Append(SelectSeq(ks, LAMBDA x : x # k), k)

\* the key a request puts in the cache this step, or 0
SetKey ==
  IF \E r \in Slots : Moves(r) /\ HasEvent(After(r), "cache.set")
                        /\ ~HasEvent(req[r], "cache.set")
  THEN req[CHOOSE r \in Slots : Moves(r) /\ HasEvent(After(r), "cache.set")
                                  /\ ~HasEvent(req[r], "cache.set")].key
  ELSE 0

C12_EvictionStep ==
  /\ Len(cache') <= CacheMax
  /\ \A m, n \in 1..Len(cache') : cache'[m].key = cache'[n].key => m = n
  /\ IF Arrival /\ HasEvent(Arrived, "cache.get")
     THEN KeysOf(cache') = Used(KeysOf(cache), Arrived.key)
     ELSE IF SetKey # 0
     THEN IF Holds(cache, SetKey)
          THEN KeysOf(cache') = Used(KeysOf(cache), SetKey)
          ELSE IF Len(cache) = CacheMax
          THEN KeysOf(cache') = Append(Tail(KeysOf(cache)), SetKey)
          ELSE KeysOf(cache') = Append(KeysOf(cache), SetKey)
     ELSE cache' = cache
  /\ (Arrival /\ Arrived.key # 0 /\ ~Holds(cache, Arrived.key))
       => Arrived.pc = NextTier /\ ~HasEvent(Arrived, "cache.get")

C12_CapacityEviction ==
  [][(impl \in {"index", "node"}) => C12_EvictionStep]_vars

\* the cache is full; the entry set first has been hit since the other was
\* set and is the more recently used; a request for a third key is
\* computing, whose set will drop the other
C12_Witness ==
  /\ impl = "node"
  /\ Len(cache) = CacheMax
  /\ cache[Len(cache)].start < cache[1].start
  /\ HasEvent(last, "cache.get")
  /\ last.key = cache[Len(cache)].key
  /\ \E r \in Slots : req[r].pc = "compute" /\ ~Holds(cache, req[r].key)

(***************************************************************************)
(* C13.  Key derivation: in every program two requests have the same key   *)
(* exactly when their inputs are the same after the issuer is trimmed and  *)
(* lower-cased and the credential trimmed.                                 *)
(***************************************************************************)
Normalized(in) ==
  [issuer |-> IF in.issuer.t = "string"
              THEN Str(ToLowerCase(Trim(in.issuer.s))) ELSE in.issuer,
   credential |-> IF in.credential.t = "string"
                  THEN Str(Trim(in.credential.s)) ELSE in.credential]

C13_KeyDerivation ==
  \A a, b \in Records :
    (a.key # 0 /\ b.key # 0)
      => (a.key = b.key <=> Normalized(Inputs[a.inp]) = Normalized(Inputs[b.inp]))

(***************************************************************************)
(* C14.  At-least-once compute under races: no request is held back by     *)
(* another request of its key.  A request that arrives while another of    *)
(* its key is in flight, the cache holding no live entry of the key, is    *)
(* sent on; and one whose lookup returns no row while another of its key   *)
(* is computing or has computed and not yet written its row, computes.     *)
(***************************************************************************)
Computes(rec) == rec.pc = "compute" \/ HasEvent(rec, "compute")

\* another request of slot r's key is past its lookup, its row not yet stored
Racing(r, k) ==
  \E q \in Slots \ {r} :
    /\ req[q].key = k
    /\ req[q].pc \in {"compute", "insert"} \/ req[q].write = "pending"

C14_RaceStep ==
  /\ \A r \in Slots :
       (req[r].pc = "lookup" /\ Moves(r) /\ Visible(req[r].key) = {}
          /\ Racing(r, req[r].key))
         => Computes(After(r))
  /\ (Arrival /\ req' # req /\ Arrived.key # 0
        /\ \E q \in Slots : req[q].key = Arrived.key /\ req[q].pc # "done")
       => Arrived.pc \in {"lookup", "compute"}

C14_ComputeUnderRaces == [][C14_RaceStep]_vars

\* two requests of one key have both computed, each its own proof, before
\* any time has passed and before any row of the key was stored
C14_Witness ==
  /\ impl = "index"
  /\ now = 0
  /\ req[1].key # 0 /\ req[1].key = req[2].key
  /\ req[1].write = "pending" /\ req[2].write = "pending"
  /\ HasEvent(req[1], "compute") /\ HasEvent(req[2], "compute")
  /\ req[1].row.proof # req[2].row.proof
  /\ RowsOf(req[1].key) = {}

(***************************************************************************)
(* C15.  Bounded compute: a request whose compute has started and has not  *)
(* given a result is not left waiting; it has the failure outcome (HTTP    *)
(* 500 or success false), and has written nothing.                         *)
(***************************************************************************)
C15_BoundedCompute ==
  \A rec \in Records :
    (HasEvent(rec, "compute") /\ rec.pc \notin {"compute", "insert"}
       /\ rec.resp.status # OkStatus)
      => /\ rec.pc = "done"
         /\ Failed(rec)
         /\ rec.write = "none"

(***************************************************************************)
(* C16.  One outcome per request: a request is in flight or has exactly    *)
(* one outcome, which is a response of status 400, 200 or 500 from a       *)
(* route, and an envelope from verifyIdentity; no handler's promise is     *)
(* rejected and no process dies with a request unanswered.                 *)
(***************************************************************************)
Outcomes ==
  IF impl \in {"index", "node"} THEN {"400", "200", "500"}
  ELSE {"invalid", "success", "failure"}

C16_OneOutcome ==
  \A rec \in Records :
    /\ rec.pc \in {"idle", "lookup", "compute", "insert", "done"}
    /\ rec.pc = "done" => rec.resp.status \in Outcomes
    /\ rec.pc \in {"lookup", "compute", "insert"} => rec.resp = NoResponse

(***************************************************************************)
(* C17.  Tier consistency in part_002: whenever the cache holds a live     *)
(* entry of a key and the store a row of it, the entry's verified and      *)
(* proof are the row's.                                                    *)
(***************************************************************************)
C17_TierConsistency ==
  impl = "index"
    => \A e \in Entries(cache) :
         now - e.start <= CacheTTL
           => \A q \in RowsOf(e.key) :
                /\ e.value.verified = q.verified
                /\ e.value.proof = q.proof

(***************************************************************************)
(* C18.  The cached pipeline decides as the uncached one: the verified of  *)
(* every successful response is what the program's verification logic      *)
(* gives for the issuer and credential of that very request, whichever     *)
(* tier has served it.                                                     *)
(***************************************************************************)
\* the decision of the running program's compute step for the input in
Decision(in) ==
  CASE impl = "index" -> Bool(TRUE)
    [] impl = "node" -> IsValidCredential(in.credential)
    [] impl = "verify" -> Bool(IsVerified(in))
    [] OTHER -> Bool(StartsWith(in.issuer.s, DidEthr))

C18_CachedEqualsUncached ==
  \A rec \in Records :
    (rec.pc = "done" /\ rec.resp.status = OkStatus)
      => rec.resp.verified = Decision(Inputs[rec.inp])

(***************************************************************************)
(* C19.  Verify once, in the two verifyIdentity programs: when the insert  *)
(* of a call that has computed returns while the store is up, the store    *)
(* holds a row of the key that a lookup returns, until the row written     *)
(* would expire; and a call whose lookup finds such a row is served it     *)
(* with the cache source and does not compute.                             *)
(***************************************************************************)
StoreSource == IF impl = "verify" THEN "CACHE (0G_LAYER)" ELSE "PERSISTENT_CACHE"

C19_VerifyOnceStep ==
  /\ \A r \in Slots :
       (req[r].pc = "insert" /\ Moves(r) /\ storeUp
          /\ (HasExpiry(req[r].row) => req[r].row.expires > now))
         => \E q \in store' :
              /\ q.key = req[r].key
              /\ HasExpiry(q) => q.expires > now
  /\ \A r \in Slots :
       (req[r].pc = "lookup" /\ Moves(r) /\ Visible(req[r].key) # {})
         => /\ After(r).pc = "done"
            /\ After(r).resp.status = OkStatus
            /\ After(r).resp.source = StoreSource
            /\ ~HasEvent(After(r), "compute")

C19_VerifyOnce ==
  [][(impl \in {"verify", "persist"}) => C19_VerifyOnceStep]_vars

====
